---- MODULE Spec2Model ----
(***************************************************************************)
(* Model of the builder endpoint (api.builder: builderAction) of the       *)
(* platflow front-end builder.  One request handler runs an optional       *)
(* backend-builder call, an optional chat-summary call and the text        *)
(* generation, writing progress records and annotations to a data stream   *)
(* and switching a SwitchableStream to the generator's text stream.        *)
(*                                                                         *)
(* Every variable is a function of the request, because each invocation of *)
(* builderAction has its own locals (stream, cumulativeUsage,              *)
(* progressCounter, dataStream, textStream).  An action is the code that   *)
(* runs between two suspension points (await) of one request.              *)
(*                                                                         *)
(* createSummary, streamText and SwitchableStream are imported modules;    *)
(* they are modelled by their contract: a call resolves or rejects, the    *)
(* generator yields parts to its readers, ends or fails, and calls         *)
(* onFinish once before its end, and stream.readable forwards the chunks   *)
(* of the source given to switchSource and ends or fails with it.          *)
(***************************************************************************)
EXTENDS Integers, Sequences, FiniteSets

\* ------------------------------------------------------------------ bounds
MaxMessages == 5
MaxParts == 2
MaxTokens == 1

\* The requests a run can handle (the specification says which arrive).
Requests == {"r1", "r2"}

\* ------------------------------------------------------- program constants
\* messages.length > 3 ? messages.length - 3 : 0
SliceWindow == 3
\* new Response(JSON.stringify({error}), { status: 500 })
ErrorStatus == 500
\* new Response(stream.readable, {...}) has the default status
OkStatus == 200

VARIABLES
  inbox,            \* for each request, the inputs it may arrive with
  pc,               \* position of builderAction / execute for each request
  request,          \* the parsed request (body and cookies)
  response,         \* what builderAction returned to the caller
  progressCounter,  \* let progressCounter
  cumulativeUsage,  \* const cumulativeUsage
  messageSliceId,   \* let messageSliceId (local of execute)
  dataStream,       \* records written to the stream createDataStream made
  usageReports,     \* every usage report an onFinish callback received
  calls,            \* how often each collaborator was invoked, with arguments
  outcome,          \* how each collaborator call of the request settled
  generator,        \* the Text Generator: parts it has yielded, finish state
  textStream,       \* the ReadableStream built around result.fullStream: its
                    \* state, its queue, every chunk enqueued so far,
                    \* whether the for-await loop of its start() is running
                    \* and how many parts the loop has got
  readable,         \* stream.readable of the SwitchableStream (response body):
                    \* its state, the chunks it carried, its current source,
                    \* and the source that was current when the client cancelled
  prompt            \* the prompt endpoint (a route of its own): position of
                    \* its action, the request it handles and its response

vars == <<inbox, pc, request, response, progressCounter, cumulativeUsage,
          messageSliceId, dataStream, usageReports, calls, outcome,
          generator, textStream, readable, prompt>>

\* ---------------------------------------------------------------- inputs
UsageFields == {"completionTokens", "promptTokens", "totalTokens"}

\* A usage object: counters may be missing (all present, totalTokens
\* missing, or all missing).
PresentCounters == {UsageFields, UsageFields \ {"totalTokens"}, {}}
\* The usage of a call that spent n completion tokens: the counters in S.
UsageOf(n, S) ==
  [f \in S |-> CASE f = "completionTokens" -> n
                 [] f = "promptTokens" -> n + 1
                 [] OTHER -> 2 * n + 1]
UsageObjects == {UsageOf(n, S) : n \in 1..MaxTokens, S \in PresentCounters}

\* The argument of an onFinish callback: usage may be undefined.
NoUsage == [hasUsage |-> FALSE, usage |-> <<>>]
UsageResponses == {NoUsage} \cup {[hasUsage |-> TRUE, usage |-> u] : u \in UsageObjects}

FinishReasons == {"stop", "length", "content-filter"}

BuilderConfigs == {"absent", "emptyUrl", "url"}

\* A header or a field that is not there (headers.get gives null, a missing
\* field or environment variable is undefined).
Absent == "<absent>"
\* A field whose value is not a string.
NotAString == "<not a string>"

\* Parts of result.fullStream. A part of any type may carry text, textDelta,
\* both or neither: one with both, one of another type whose text is not a
\* string and whose textDelta is, one with an empty textDelta, one with
\* neither.
Parts == {[type |-> "text", text |-> "a", textDelta |-> "b"],
          [type |-> "reasoning", text |-> NotAString, textDelta |-> "b"],
          [type |-> "text-delta", text |-> Absent, textDelta |-> ""],
          [type |-> "step-finish", text |-> Absent, textDelta |-> Absent]}

\* Conversation lengths (messages.length); the specification chooses which
\* of them a request may carry (see inbox).
MessageCounts == 0..MaxMessages

WellFormedRequests ==
  [bodyOk : {TRUE},              \* request.json() resolves
   cookiesOk : {TRUE},           \* the apiKeys / providers cookies are JSON
   messagesOk : {TRUE},          \* body.messages is an array
   messageCount : MessageCounts,
   builderConfig : BuilderConfigs,
   filePaths : 0..1,             \* getFilePaths(files || {}).length
   contextOptimization : BOOLEAN]

MalformedBody == [bodyOk |-> FALSE, cookiesOk |-> TRUE, messagesOk |-> FALSE,
                  messageCount |-> 0, builderConfig |-> "absent", filePaths |-> 0,
                  contextOptimization |-> FALSE]

MalformedCookies == [bodyOk |-> TRUE, cookiesOk |-> FALSE, messagesOk |-> TRUE,
                     messageCount |-> 0, builderConfig |-> "absent", filePaths |-> 0,
                     contextOptimization |-> FALSE]

MessagesNotArray == [bodyOk |-> TRUE, cookiesOk |-> TRUE, messagesOk |-> FALSE,
                     messageCount |-> 0, builderConfig |-> "absent", filePaths |-> 0,
                     contextOptimization |-> FALSE]

RequestInputs ==
  WellFormedRequests \cup {MalformedBody, MalformedCookies, MessagesNotArray}

NoRequest == [bodyOk |-> FALSE, cookiesOk |-> FALSE, messagesOk |-> FALSE,
              messageCount |-> 0, builderConfig |-> "absent", filePaths |-> 0,
              contextOptimization |-> FALSE]

\* ------------------------------------------------------------ initial state
ZeroUsage == [f \in UsageFields |-> 0]
NoCalls == [builder |-> 0, summary |-> 0, streamText |-> 0, sliceArg |-> 0]
NoOutcome == [builder |-> "none", summary |-> "none", streamText |-> "none"]
NoResponse == [kind |-> "none", status |-> 0]
NoGenerator == [state |-> "idle", parts |-> <<>>, finishReason |-> "none"]
NoTextStream == [state |-> "none", queue |-> <<>>, enqueued |-> <<>>, loop |-> "idle",
                 pulled |-> 0]
NewReadable == [state |-> "open", chunks |-> <<>>, source |-> "none", closes |-> 0,
                cancelAt |-> "never"]

\* The prompt endpoint has no request to handle.
NoPromptResponse == [status |-> 0, success |-> FALSE, error |-> "", sessionId |-> ""]
NoPromptInput ==
  [method |-> "GET", body |-> "invalid", prompt |-> "missing", header |-> "",
   apiKey |-> "", expectedApiKey |-> "", encodes |-> FALSE]
NoPrompt == [pc |-> "none", input |-> NoPromptInput, response |-> NoPromptResponse]

InitLocals ==
  /\ pc = [r \in Requests |-> "idle"]
  /\ request = [r \in Requests |-> NoRequest]
  /\ response = [r \in Requests |-> NoResponse]
  /\ progressCounter = [r \in Requests |-> 1]
  /\ cumulativeUsage = [r \in Requests |-> ZeroUsage]
  /\ messageSliceId = [r \in Requests |-> 0]
  /\ dataStream = [r \in Requests |-> <<>>]
  /\ usageReports = [r \in Requests |-> <<>>]
  /\ calls = [r \in Requests |-> NoCalls]
  /\ outcome = [r \in Requests |-> NoOutcome]
  /\ generator = [r \in Requests |-> NoGenerator]
  /\ textStream = [r \in Requests |-> NoTextStream]
  /\ readable = [r \in Requests |-> NewReadable]

\* One request; a well-formed one carries the longest conversation (the
\* other lengths are those of SliceInputs).
MainInputs ==
  {input \in RequestInputs :
     (input.bodyOk /\ input.cookiesOk /\ input.messagesOk)
       => input.messageCount = MaxMessages}

Init ==
  /\ inbox = [r \in Requests |-> IF r = "r1" THEN MainInputs ELSE {}]
  /\ InitLocals
  /\ prompt = NoPrompt

\* ------------------------------------------------ the code of execute(...)
\* Variant: the counter and the totals are module state, the same for every
\* request (here the first request's).
LocalsShared(r) ==
  [pc |-> pc[r], ds |-> dataStream[r], counter |-> progressCounter["r1"],
   usage |-> cumulativeUsage["r1"], calls |-> calls[r], slice |-> messageSliceId[r]]

\* The locals one synchronous stretch of execute reads and writes.
\* const cumulativeUsage = {...} and let progressCounter = 1 are declared
\* inside builderAction: every request reads and writes its own.
Locals(r) ==
  [pc |-> pc[r], ds |-> dataStream[r], counter |-> progressCounter[r],
   usage |-> cumulativeUsage[r], calls |-> calls[r], slice |-> messageSliceId[r]]

Commit(r, x) ==
  /\ pc' = [pc EXCEPT ![r] = x.pc]
  /\ dataStream' = [dataStream EXCEPT ![r] = x.ds]
  /\ progressCounter' = [progressCounter EXCEPT ![r] = x.counter]
  /\ cumulativeUsage' = [cumulativeUsage EXCEPT ![r] = x.usage]
  /\ calls' = [calls EXCEPT ![r] = x.calls]
  /\ messageSliceId' = [messageSliceId EXCEPT ![r] = x.slice]

ProgressAnnotation(label, status, order, message) ==
  [part |-> "data", type |-> "progress", label |-> label, status |-> status,
   order |-> order, message |-> message]

\* dataStream.writeData({ type: 'progress', ..., order: progressCounter++ })
writeProgress(x, label, status, message) ==
  [x EXCEPT !.ds = Append(@, ProgressAnnotation(label, status, x.counter, message)),
            !.counter = @ + 1]

\* dataStream.writeMessageAnnotation({ type, ... })
writeMessageAnnotation(x, type, value) ==
  [x EXCEPT !.ds = Append(@, [part |-> "message_annotations", type |-> type,
                               value |-> value])]

\* Variant: messages.length - 3 without the guard.
ComputeSliceIdUnguarded(n) == n - SliceWindow

\* let messageSliceId = 0; if (messages.length > 3) messageSliceId = messages.length - 3
ComputeSliceId(n) == IF n > SliceWindow THEN n - SliceWindow ELSE 0

\* Variant: the guard tests builderConfig only, not its backendUrl.
HasBuilderConfig(req) == req.builderConfig # "absent"

\* builderConfig?.backendUrl is truthy
HasBackendUrl(req) == req.builderConfig = "url"

\* Variant: the guard tests contextOptimization only.
SummaryWantedIgnoresFiles(req) == req.contextOptimization

\* filePaths.length > 0 && contextOptimization
SummaryWanted(req) == req.filePaths > 0 /\ req.contextOptimization

\* Generation entry: progress(response, in-progress), then streamText({...})
\* is called with messageSliceId and awaited.
GenerationEntry(x) ==
  LET y == writeProgress(x, "response", "in-progress", "Generating Response")
  IN [y EXCEPT !.calls.streamText = @ + 1, !.calls.sliceArg = x.slice,
               !.pc = "awaitStreamText"]

\* Summary entry: progress(summary, in-progress), then createSummary({...})
\* is called and awaited.
SummaryEntry(x) ==
  LET y == writeProgress(x, "summary", "in-progress", "Analysing Request")
  IN [y EXCEPT !.calls.summary = @ + 1, !.pc = "awaitCreateSummary"]

\* What follows the builder stage up to the next await.
AfterBuilder(req, x) ==
  IF SummaryWanted(req) THEN SummaryEntry(x) ELSE GenerationEntry(x)

\* Builder entry: progress(builder, in-progress), then fetch(backendUrl)
\* is called and awaited.
BuilderEntry(x) ==
  LET y == writeProgress(x, "builder", "in-progress", "Connecting to builder server")
  IN [y EXCEPT !.calls.builder = @ + 1, !.pc = "awaitFetch"]

\* The body of execute from its first line to its first await.
ExecuteStart(req, x) ==
  LET y == [x EXCEPT !.slice = ComputeSliceId(req.messageCount)]
  IN IF HasBackendUrl(req) THEN BuilderEntry(y) ELSE AfterBuilder(req, y)

\* Variant: progress(builder, complete) is written without the annotation.
BuilderSuccessCompleteOnly(x) ==
  writeProgress(x, "builder", "complete", "Builder server processing complete")

\* The builder answered 2xx with a JSON body.
BuilderSuccess(x) ==
  writeProgress(writeMessageAnnotation(x, "contextData", "builderData"),
                "builder", "complete", "Builder server processing complete")

\* Variant: the catch writes order: progressCounter without incrementing it.
BuilderCatchReusesOrder(x, errorMessage) ==
  [x EXCEPT !.ds = Append(@, ProgressAnnotation("builder", "in-progress",
                                                x.counter, errorMessage))]

\* Variant: the catch calls fetch a second time (a retry).
BuilderCatchRetries(x, errorMessage) ==
  [writeProgress(x, "builder", "in-progress", errorMessage)
     EXCEPT !.calls.builder = @ + 1]

\* catch (error) of the builder stage.
BuilderCatch(x, errorMessage) ==
  writeProgress(x, "builder", "in-progress", errorMessage)

\* createSummary resolved.
SummaryComplete(x) ==
  writeMessageAnnotation(
    writeProgress(x, "summary", "complete", "Analysis Complete"),
    "chatSummary", "summary")

\* usage.f || 0
Counter(u, f) == IF f \in DOMAIN u THEN u[f] ELSE 0

\* onFinish(resp) handed to createSummary:
\* if (resp.usage) { cumulativeUsage.f += resp.usage.f || 0 }
createSummaryOnFinish(total, resp) ==
  IF resp.hasUsage
    THEN [f \in UsageFields |-> total[f] + Counter(resp.usage, f)]
    ELSE total

\* Variant: the counters are assigned (=) instead of added (+=).
AddUsageOverwrite(total, resp) ==
  IF resp.hasUsage
    THEN [f \in UsageFields |-> Counter(resp.usage, f)]
    ELSE total

\* if (usage) { cumulativeUsage.f += usage.f || 0, for the three counters }
AddUsage(total, resp) ==
  IF resp.hasUsage
    THEN [f \in UsageFields |-> total[f] + Counter(resp.usage, f)]
    ELSE total

\* Variant: the terminal records are written only for finishReason "stop".
onFinishOnlyStop(x, finishReason, resp) ==
  LET y == [x EXCEPT !.usage = AddUsage(@, resp)]
  IN IF finishReason = "stop"
       THEN writeProgress(writeMessageAnnotation(y, "usage", y.usage),
                          "response", "complete", "Response Generated")
       ELSE y

\* Variant: progress(response, complete) is written before the usage annotation.
onFinishProgressFirst(x, finishReason, resp) ==
  LET y == [x EXCEPT !.usage = AddUsage(@, resp)]
  IN IF finishReason # "length"
       THEN LET z == writeProgress(y, "response", "complete", "Response Generated")
            IN writeMessageAnnotation(z, "usage", z.usage)
       ELSE y

\* options.onFinish({ finishReason, usage }) up to its await / return.
onFinish(x, finishReason, resp) ==
  LET y == [x EXCEPT !.usage = AddUsage(@, resp)]
  IN IF finishReason # "length"
       THEN writeProgress(writeMessageAnnotation(y, "usage", y.usage),
                          "response", "complete", "Response Generated")
       ELSE y

\* 'f' in part && typeof part.f === 'string'
IsString(v) == v \notin {Absent, NotAString}

\* Variant: only part.text is looked at, part.textDelta is ignored.
ChunkOfTextOnly(part) ==
  IF IsString(part.text) THEN part.text ELSE ""

\* The chunk the for-await loop takes from a part, whatever its type:
\* part.text if it is a string, else part.textDelta if it is a string,
\* else ''.
ChunkOf(part) ==
  IF IsString(part.text) THEN part.text
  ELSE IF IsString(part.textDelta) THEN part.textDelta
  ELSE ""

\* encoder.encode(chunk): the UTF-8 bytes of the chunk.
Encode(chunk) ==
  CASE chunk = "a" -> <<97>>
    [] chunk = "b" -> <<98>>
    [] OTHER -> <<>>

\* createDataStream catches a rejection of execute and writes an error part.
ExecuteRejected(x) ==
  [x EXCEPT !.ds = Append(@, [part |-> "error", type |-> "error"]),
            !.pc = "executeRejected"]

\* ----------------------------------------------------------------- actions
\* builderAction is entered and awaits request.json().
builderAction(r) ==
  /\ pc[r] = "idle"
  /\ \E input \in inbox[r] : request' = [request EXCEPT ![r] = input]
  /\ pc' = [pc EXCEPT ![r] = "awaitRequestJson"]
  /\ UNCHANGED <<inbox, response, progressCounter, cumulativeUsage,
                 messageSliceId, dataStream, usageReports, calls, outcome,
                 generator, textStream, readable, prompt>>

\* request.json() settles; the handler runs on to the first await of execute
\* and returns the Response, or fails before that.
RequestJsonSettles(r) ==
  /\ pc[r] = "awaitRequestJson"
  /\ IF ~request[r].bodyOk \/ ~request[r].cookiesOk
       THEN \* request.json() / JSON.parse throw outside the try block
            /\ pc' = [pc EXCEPT ![r] = "threw"]
            /\ response' = [response EXCEPT ![r] = [kind |-> "exception", status |-> 0]]
            /\ UNCHANGED <<progressCounter, cumulativeUsage, messageSliceId,
                           dataStream, calls>>
       ELSE IF ~request[r].messagesOk
         THEN \* messages.reduce throws inside try: catch returns the JSON error
            /\ pc' = [pc EXCEPT ![r] = "caught"]
            /\ response' = [response EXCEPT ![r] = [kind |-> "json-error", status |-> ErrorStatus]]
            /\ UNCHANGED <<progressCounter, cumulativeUsage, messageSliceId,
                           dataStream, calls>>
         ELSE
            /\ Commit(r, ExecuteStart(request[r], Locals(r)))
            /\ response' = [response EXCEPT ![r] = [kind |-> "stream", status |-> OkStatus]]
  /\ UNCHANGED <<inbox, request, usageReports, outcome, generator,
                 textStream, readable, prompt>>

\* await fetch(builderConfig.backendUrl, ...) settles.
FetchSettles(r) ==
  /\ pc[r] = "awaitFetch"
  /\ \E settled \in {"ok", "notOk", "transportError"} :
       CASE settled = "ok" ->
              /\ pc' = [pc EXCEPT ![r] = "awaitBuilderJson"]
              /\ UNCHANGED <<progressCounter, cumulativeUsage, messageSliceId,
                             dataStream, calls, outcome>>
         [] settled = "notOk" ->
              /\ Commit(r, AfterBuilder(request[r],
                   BuilderCatch(Locals(r), "Builder server error: Builder server returned status")))
              /\ outcome' = [outcome EXCEPT ![r].builder = "failed"]
         [] settled = "transportError" ->
              /\ Commit(r, AfterBuilder(request[r],
                   BuilderCatch(Locals(r), "Builder server error: fetch failed")))
              /\ outcome' = [outcome EXCEPT ![r].builder = "failed"]
  /\ UNCHANGED <<inbox, request, response, usageReports, generator,
                 textStream, readable, prompt>>

\* await builderResponse.json() settles.
BuilderJsonSettles(r) ==
  /\ pc[r] = "awaitBuilderJson"
  /\ \E parsed \in BOOLEAN :
       IF parsed
         THEN /\ Commit(r, AfterBuilder(request[r], BuilderSuccess(Locals(r))))
              /\ outcome' = [outcome EXCEPT ![r].builder = "ok"]
         ELSE /\ Commit(r, AfterBuilder(request[r],
                   BuilderCatch(Locals(r), "Builder server error: invalid json")))
              /\ outcome' = [outcome EXCEPT ![r].builder = "failed"]
  /\ UNCHANGED <<inbox, request, response, usageReports, generator,
                 textStream, readable, prompt>>

\* createSummary calls its onFinish(resp) while execute awaits it.
SummaryOnFinish(r) ==
  /\ pc[r] = "awaitCreateSummary"
  /\ \A i \in 1..Len(usageReports[r]) : usageReports[r][i].stage # "summary"
  /\ \E resp \in UsageResponses :
       /\ cumulativeUsage' = [cumulativeUsage EXCEPT ![r] = createSummaryOnFinish(@, resp)]
       /\ usageReports' = [usageReports EXCEPT ![r] =
                             Append(@, [stage |-> "summary", resp |-> resp])]
  /\ UNCHANGED <<inbox, pc, request, response, progressCounter, messageSliceId,
                 dataStream, calls, outcome, generator, textStream, readable, prompt>>

\* await createSummary(...) settles: it resolves, or it rejects and, there
\* being no try around it, execute rejects.
CreateSummarySettles(r) ==
  /\ pc[r] = "awaitCreateSummary"
  /\ \E resolved \in BOOLEAN :
       IF resolved
         THEN /\ Commit(r, GenerationEntry(SummaryComplete(Locals(r))))
              /\ outcome' = [outcome EXCEPT ![r].summary = "ok"]
         ELSE /\ Commit(r, ExecuteRejected(Locals(r)))
              /\ outcome' = [outcome EXCEPT ![r].summary = "failed"]
  /\ UNCHANGED <<inbox, request, response, usageReports, generator,
                 textStream, readable, prompt>>

\* await streamText(...) settles.  Resolved: mergeIntoDataStream (from now
\* on the generator writes its parts into the data stream), the textStream
\* is built (its start() begins the for-await loop) and
\* stream.switchSource(textStream) is called, which makes it the source of
\* stream.readable; execute awaits the promise of that call.
StreamTextSettles(r) ==
  /\ pc[r] = "awaitStreamText"
  /\ \E resolved \in BOOLEAN :
       IF resolved
         THEN /\ pc' = [pc EXCEPT ![r] = "awaitSwitchSource"]
              /\ generator' = [generator EXCEPT ![r].state = "streaming"]
              /\ textStream' = [textStream EXCEPT ![r].state = "readable",
                                                  ![r].loop = "running"]
              /\ readable' = [readable EXCEPT ![r].source = "textStream"]
              /\ outcome' = [outcome EXCEPT ![r].streamText = "ok"]
              /\ UNCHANGED <<progressCounter, cumulativeUsage, messageSliceId,
                             dataStream, calls>>
         ELSE /\ Commit(r, ExecuteRejected(Locals(r)))
              /\ outcome' = [outcome EXCEPT ![r].streamText = "failed"]
              /\ UNCHANGED <<generator, textStream, readable>>
  /\ UNCHANGED <<inbox, request, response, usageReports, prompt>>

\* await stream.switchSource(textStream) settles: execute returns, or it
\* rejects and createDataStream writes the error part.
SwitchSourceSettles(r) ==
  /\ pc[r] = "awaitSwitchSource"
  /\ \E resolved \in BOOLEAN :
       IF resolved
         THEN /\ pc' = [pc EXCEPT ![r] = "executeDone"]
              /\ UNCHANGED <<progressCounter, cumulativeUsage, messageSliceId,
                             dataStream, calls>>
         ELSE Commit(r, ExecuteRejected(Locals(r)))
  /\ UNCHANGED <<inbox, request, response, usageReports, outcome, generator,
                 textStream, readable, prompt>>

\* --------------------------------------------------------- Text Generator
\* result.mergeIntoDataStream(dataStream): a part the generator yields is
\* also written into the data stream, by a reader of its own.
mergeIntoDataStream(ds, part) ==
  Append(ds, [part |-> "generator", type |-> "part", value |-> part])

\* The number of parts the reader of mergeIntoDataStream has written.
Merged(r) == Len(SelectSeq(dataStream[r], LAMBDA e : e.part = "generator"))

\* The generator yields a part; its two readers (the one mergeIntoDataStream
\* set up and the for-await loop) get it later, each in its own callback.
GeneratorYield(r) ==
  /\ generator[r].state = "streaming"
  /\ Len(generator[r].parts) < MaxParts
  /\ \E part \in Parts :
       generator' = [generator EXCEPT ![r].parts = Append(@, part)]
  /\ UNCHANGED <<inbox, pc, request, response, progressCounter, cumulativeUsage,
                 messageSliceId, dataStream, usageReports, calls, outcome,
                 textStream, readable, prompt>>

\* The reader of mergeIntoDataStream writes the next part into the data
\* stream.
MergePart(r) ==
  /\ generator[r].state # "errored"
  /\ Merged(r) < Len(generator[r].parts)
  /\ dataStream' = [dataStream EXCEPT ![r] =
                      mergeIntoDataStream(@, generator[r].parts[Merged(r) + 1])]
  /\ UNCHANGED <<inbox, pc, request, response, progressCounter, cumulativeUsage,
                 messageSliceId, usageReports, calls, outcome, generator,
                 textStream, readable, prompt>>

\* result.fullStream fails: the parts not yet read are dropped and the next
\* pull of each reader rejects.
GeneratorError(r) ==
  /\ generator[r].state = "streaming"
  /\ generator' = [generator EXCEPT ![r].state = "errored"]
  /\ UNCHANGED <<inbox, pc, request, response, progressCounter, cumulativeUsage,
                 messageSliceId, dataStream, usageReports, calls, outcome,
                 textStream, readable, prompt>>

\* The generator finishes and calls options.onFinish({finishReason, usage});
\* onFinish runs to its await (setTimeout 0) or, for "length", to its end.
GeneratorFinish(r) ==
  /\ generator[r].state = "streaming"
  /\ \E finishReason \in FinishReasons, resp \in UsageResponses :
       /\ Commit(r, onFinish(Locals(r), finishReason, resp))
       /\ usageReports' = [usageReports EXCEPT ![r] =
                             Append(@, [stage |-> "response", resp |-> resp])]
       /\ generator' = [generator EXCEPT
            ![r].state = IF finishReason # "length" THEN "inOnFinish" ELSE "finished",
            ![r].finishReason = finishReason]
  /\ UNCHANGED <<inbox, request, response, outcome, textStream, readable, prompt>>

\* The timer of onFinish fires and onFinish returns.
OnFinishReturns(r) ==
  /\ generator[r].state = "inOnFinish"
  /\ generator' = [generator EXCEPT ![r].state = "finished"]
  /\ UNCHANGED <<inbox, pc, request, response, progressCounter, cumulativeUsage,
                 messageSliceId, dataStream, usageReports, calls, outcome,
                 textStream, readable, prompt>>

\* ------------------------------------------- textStream: the for-await loop
\* controller.enqueue(bytes) on the textStream: queued while the stream is
\* readable; once the stream was cancelled enqueue throws, the catch calls
\* controller.error (without effect on a stream that is not readable) and
\* the loop is over.
Enqueue(ts, bytes) ==
  IF ts.state = "readable"
    THEN [ts EXCEPT !.queue = Append(@, bytes), !.enqueued = Append(@, bytes)]
    ELSE [ts EXCEPT !.loop = "stopped"]

\* One iteration of for await (const part of result.fullStream): the loop
\* gets the next part the generator has yielded and enqueues its chunk, if
\* it has one.
LoopPart(r) ==
  /\ textStream[r].loop = "running"
  /\ generator[r].state # "errored"
  /\ textStream[r].pulled < Len(generator[r].parts)
  /\ LET part == generator[r].parts[textStream[r].pulled + 1]
         got == [textStream[r] EXCEPT !.pulled = @ + 1]
     IN textStream' = [textStream EXCEPT ![r] =
                         IF ChunkOf(part) # ""
                           THEN Enqueue(got, Encode(ChunkOf(part)))
                           ELSE got]
  /\ UNCHANGED <<inbox, pc, request, response, progressCounter, cumulativeUsage,
                 messageSliceId, dataStream, usageReports, calls, outcome,
                 generator, readable, prompt>>

\* The pull finds the stream ended: the loop ends, controller.close()
\* (which throws into the catch when the stream was cancelled).
LoopDone(r) ==
  /\ textStream[r].loop = "running"
  /\ generator[r].state = "finished"
  /\ textStream[r].pulled = Len(generator[r].parts)
  /\ textStream' = [textStream EXCEPT
       ![r].state = IF @ = "readable" THEN "closed" ELSE @,
       ![r].loop = "stopped"]
  /\ UNCHANGED <<inbox, pc, request, response, progressCounter, cumulativeUsage,
                 messageSliceId, dataStream, usageReports, calls, outcome,
                 generator, readable, prompt>>

\* Variant: the catch ends the stream with controller.close().
LoopCatchCloses(r) ==
  /\ textStream[r].loop = "running"
  /\ generator[r].state = "errored"
  /\ textStream' = [textStream EXCEPT
       ![r].state = IF @ = "readable" THEN "closed" ELSE @,
       ![r].loop = "stopped"]
  /\ UNCHANGED <<inbox, pc, request, response, progressCounter, cumulativeUsage,
                 messageSliceId, dataStream, usageReports, calls, outcome,
                 generator, readable, prompt>>

\* The pull of the loop rejects because result.fullStream has failed:
\* catch (error) { controller.error(error) }, which drops the chunks still
\* queued.
LoopCatch(r) ==
  /\ textStream[r].loop = "running"
  /\ generator[r].state = "errored"
  /\ textStream' = [textStream EXCEPT
       ![r].state = IF @ = "readable" THEN "errored" ELSE @,
       ![r].queue = <<>>,
       ![r].loop = "stopped"]
  /\ UNCHANGED <<inbox, pc, request, response, progressCounter, cumulativeUsage,
                 messageSliceId, dataStream, usageReports, calls, outcome,
                 generator, readable, prompt>>

\* ------------------------------------------------------- SwitchableStream
\* The stream forwards one chunk of its current source to stream.readable.
PumpChunk(r) ==
  /\ readable[r].source = "textStream"
  /\ readable[r].state = "open"
  /\ textStream[r].queue # <<>>
  /\ readable' = [readable EXCEPT ![r].chunks =
                    Append(@, [from |-> readable[r].source,
                               bytes |-> Head(textStream[r].queue)])]
  /\ textStream' = [textStream EXCEPT ![r].queue = Tail(@)]
  /\ UNCHANGED <<inbox, pc, request, response, progressCounter, cumulativeUsage,
                 messageSliceId, dataStream, usageReports, calls, outcome, generator, prompt>>

\* The current source signalled end-of-data: stream.readable ends.
PumpDone(r) ==
  /\ readable[r].source = "textStream"
  /\ readable[r].state = "open"
  /\ textStream[r].state = "closed"
  /\ textStream[r].queue = <<>>
  /\ readable' = [readable EXCEPT ![r].state = "closed", ![r].closes = @ + 1]
  /\ UNCHANGED <<inbox, pc, request, response, progressCounter, cumulativeUsage,
                 messageSliceId, dataStream, usageReports, calls, outcome, generator, textStream, prompt>>

\* The current source failed: the error is propagated to stream.readable.
PumpError(r) ==
  /\ readable[r].source = "textStream"
  /\ readable[r].state = "open"
  /\ textStream[r].state = "errored"
  /\ readable' = [readable EXCEPT ![r].state = "errored", ![r].closes = @ + 1]
  /\ UNCHANGED <<inbox, pc, request, response, progressCounter, cumulativeUsage,
                 messageSliceId, dataStream, usageReports, calls, outcome, generator, textStream, prompt>>

\* The client cancels the response body (it disconnects or stops reading):
\* the cancellation reaches the current source, whose queue is discarded
\* (a source that was closed with chunks still queued counts as cancelled).
\* The textStream has no cancel() and streamText was given no abort signal,
\* so neither the loop nor the generator is told.
ClientCancel(r) ==
  /\ response[r].kind = "stream"
  /\ readable[r].state = "open"
  /\ readable' = [readable EXCEPT ![r].state = "cancelled",
                                  ![r].cancelAt = readable[r].source]
  /\ textStream' = [textStream EXCEPT
       ![r].state = IF /\ readable[r].source = "textStream"
                       /\ \/ @ = "readable"
                          \/ @ = "closed" /\ textStream[r].queue # <<>>
                      THEN "cancelled" ELSE @,
       ![r].queue = IF readable[r].source = "textStream" THEN <<>> ELSE @]
  /\ UNCHANGED <<inbox, pc, request, response, progressCounter, cumulativeUsage,
                 messageSliceId, dataStream, usageReports, calls, outcome, generator, prompt>>

\* ------------------------------------------------------------ specification
Next ==
  \E r \in Requests :
    \/ builderAction(r)
    \/ RequestJsonSettles(r)
    \/ FetchSettles(r)
    \/ BuilderJsonSettles(r)
    \/ SummaryOnFinish(r)
    \/ CreateSummarySettles(r)
    \/ StreamTextSettles(r)
    \/ SwitchSourceSettles(r)
    \/ GeneratorFinish(r)
    \/ OnFinishReturns(r)
    \/ GeneratorYield(r)
    \/ GeneratorError(r)
    \/ MergePart(r)
    \/ LoopPart(r)
    \/ LoopDone(r)
    \/ LoopCatch(r)
    \/ PumpChunk(r)
    \/ PumpDone(r)
    \/ PumpError(r)
    \/ ClientCancel(r)

\* Every request, every step of the handler, of the Text Generator, of the
\* two readers of its parts, of the response body and of the client.
Spec == Init /\ [][Next]_vars

\* Every request, with a generation that yields no part and a client that
\* reads the response body to its end: the handler, both stages, the finish
\* or the failure of the generator and the end of the response body. The
\* steps left out (a part yielded, written into the data stream, got by the
\* loop or forwarded, and the cancellation) write no progress record and no
\* annotation and change no counter, total or position of the handler.
NextStages ==
  \E r \in Requests :
    \/ builderAction(r)
    \/ RequestJsonSettles(r)
    \/ FetchSettles(r)
    \/ BuilderJsonSettles(r)
    \/ SummaryOnFinish(r)
    \/ CreateSummarySettles(r)
    \/ StreamTextSettles(r)
    \/ SwitchSourceSettles(r)
    \/ GeneratorFinish(r)
    \/ OnFinishReturns(r)
    \/ GeneratorError(r)
    \/ LoopDone(r)
    \/ LoopCatch(r)
    \/ PumpDone(r)
    \/ PumpError(r)

SpecStages == Init /\ [][NextStages]_vars

\* One well-formed request that runs neither the builder stage nor the
\* summary stage, with every step of the generation and a client that may
\* stop reading the response body at any moment. The stage steps are never
\* enabled for this request.
ClientInput ==
  [bodyOk |-> TRUE, cookiesOk |-> TRUE, messagesOk |-> TRUE,
   messageCount |-> MaxMessages, builderConfig |-> "absent", filePaths |-> 0,
   contextOptimization |-> FALSE]

InitClient ==
  /\ inbox = [r \in Requests |-> IF r = "r1" THEN {ClientInput} ELSE {}]
  /\ InitLocals
  /\ prompt = NoPrompt

NextClient ==
  \E r \in Requests :
    \/ builderAction(r)
    \/ RequestJsonSettles(r)
    \/ StreamTextSettles(r)
    \/ SwitchSourceSettles(r)
    \/ GeneratorFinish(r)
    \/ OnFinishReturns(r)
    \/ GeneratorYield(r)
    \/ GeneratorError(r)
    \/ MergePart(r)
    \/ LoopPart(r)
    \/ LoopDone(r)
    \/ LoopCatch(r)
    \/ PumpChunk(r)
    \/ PumpDone(r)
    \/ PumpError(r)
    \/ ClientCancel(r)

SpecClient == InitClient /\ [][NextClient]_vars

\* One well-formed request with a conversation of any length, with and
\* without the builder stage; conversations of 2 and of 5 messages also go
\* through both stages.
SliceInputs ==
  {input \in WellFormedRequests :
     /\ input.builderConfig \in {"absent", "url"}
     /\ input.contextOptimization = (input.filePaths > 0)
     /\ input.filePaths > 0
          => (input.builderConfig = "url" /\ input.messageCount \in {2, 5})}

InitSlice ==
  /\ inbox = [r \in Requests |-> IF r = "r1" THEN SliceInputs ELSE {}]
  /\ InitLocals
  /\ prompt = NoPrompt


\* The steps of a request that wait for no answer of the builder service
\* or of the summary service.
Runs(r) ==
  \/ builderAction(r)
  \/ RequestJsonSettles(r)
  \/ StreamTextSettles(r)
  \/ SwitchSourceSettles(r)
  \/ GeneratorFinish(r)
  \/ OnFinishReturns(r)
  \/ GeneratorError(r)
  \/ LoopDone(r)
  \/ LoopCatch(r)
  \/ PumpDone(r)
  \/ PumpError(r)

\* The handler, the Text Generator and the response body keep running; the
\* builder service and the summary service answer or never do. The code
\* arms no timer and passes no abort signal for either call, so nothing
\* else ends a wait for them.
SpecLive == Init /\ [][NextStages]_vars /\ \A r \in Requests : WF_vars(Runs(r))

\* Two requests handled at the same time, each with a builder URL, a file
\* reference and contextOptimization. Their awaits (request body, fetch,
\* builder body, createSummary and its onFinish, streamText, the generator's
\* onFinish and its timer) interleave in every way. The steps left out
\* (fragment pulls, forwarding, cancellation, the settling of switchSource)
\* write neither a progress record nor a usage annotation, and change
\* neither a counter nor a total.
StagedInput ==
  [bodyOk |-> TRUE, cookiesOk |-> TRUE, messagesOk |-> TRUE, messageCount |-> 0,
   builderConfig |-> "url", filePaths |-> 1, contextOptimization |-> TRUE]

InitTwo ==
  /\ inbox = [r \in Requests |-> {StagedInput}]
  /\ InitLocals
  /\ prompt = NoPrompt

NextTwo ==
  \E r \in Requests :
    \/ builderAction(r)
    \/ RequestJsonSettles(r)
    \/ FetchSettles(r)
    \/ BuilderJsonSettles(r)
    \/ SummaryOnFinish(r)
    \/ CreateSummarySettles(r)
    \/ StreamTextSettles(r)
    \/ GeneratorFinish(r)
    \/ OnFinishReturns(r)

SpecTwo == InitTwo /\ [][NextTwo]_vars

\* The slice id is computed before the stages and handed over when
\* streamText is called: the steps up to the end of generation decide it.
SpecSlice == InitSlice /\ [][NextTwo]_vars

\* ------------------------------------------------------ the prompt endpoint
\* The requests the prompt endpoint may get and the API_KEY it runs with.
PromptInputs ==
  [method : {"GET", "POST", "PUT"},
   body : {"invalid", "null", "object"},     \* what request.json() gives
   prompt : {"missing", "empty", "text"},    \* body.prompt
   header : {Absent, "", "k1", "k2"},        \* the x-api-key header
   apiKey : {Absent, "", "k1", "k2"},        \* body.apiKey
   expectedApiKey : {Absent, "", "k1"},      \* process.env.API_KEY
   encodes : BOOLEAN]                        \* encodeURIComponent accepts
                                             \* body.prompt and body.template

\* A value JavaScript takes as true in a condition and keeps in a ||.
Truthy(v) == v \notin {Absent, ""}

\* json({ error }, { status })
PromptError(status, error) ==
  [status |-> status, success |-> FALSE, error |-> error, sessionId |-> ""]

\* json({ success: true, sessionId, redirectUrl })
PromptSuccess ==
  [status |-> OkStatus, success |-> TRUE, error |-> "", sessionId |-> "uuid"]

\* Variant: body.apiKey || request.headers.get('x-api-key')
SuppliedKeyBodyFirst(in) == IF Truthy(in.apiKey) THEN in.apiKey ELSE in.header

\* const apiKey = request.headers.get('x-api-key') || body.apiKey
SuppliedKey(in) == IF Truthy(in.header) THEN in.header ELSE in.apiKey

\* The body of the try block once request.json() has resolved; whatever it
\* throws lands in the catch.
AfterJson(in) ==
  IF in.body = "null"
    THEN PromptError(400, "Invalid request body")
  ELSE IF in.prompt # "text"
    THEN PromptError(400, "Prompt is required")
  ELSE IF Truthy(in.expectedApiKey) /\ in.expectedApiKey # SuppliedKey(in)
    THEN PromptError(401, "Unauthorized")
  ELSE IF ~in.encodes
    THEN PromptError(400, "Invalid request body")
  ELSE PromptSuccess

\* action({ request }) up to its await: the method check.
action ==
  /\ prompt.pc = "idle"
  /\ prompt' = IF prompt.input.method # "POST"
                 THEN [prompt EXCEPT !.pc = "done",
                         !.response = PromptError(405, "Method not allowed")]
                 ELSE [prompt EXCEPT !.pc = "awaitJson"]
  /\ UNCHANGED <<inbox, pc, request, response, progressCounter, cumulativeUsage,
                 messageSliceId, dataStream, usageReports, calls, outcome,
                 generator, textStream, readable>>

\* await request.json() settles: it rejects (catch) or gives the body.
PromptJsonSettles ==
  /\ prompt.pc = "awaitJson"
  /\ prompt' = [prompt EXCEPT !.pc = "done",
                  !.response = IF prompt.input.body = "invalid"
                                 THEN PromptError(400, "Invalid request body")
                                 ELSE AfterJson(prompt.input)]
  /\ UNCHANGED <<inbox, pc, request, response, progressCounter, cumulativeUsage,
                 messageSliceId, dataStream, usageReports, calls, outcome,
                 generator, textStream, readable>>

InitPrompt ==
  /\ inbox = [r \in Requests |-> {}]
  /\ InitLocals
  /\ \E in \in PromptInputs :
       prompt = [pc |-> "idle", input |-> in, response |-> NoPromptResponse]

NextPrompt == action \/ PromptJsonSettles

SpecPrompt == InitPrompt /\ [][NextPrompt]_vars

\* Every step the program can take for one request (the disjuncts of Next
\* but the client's cancellation).
Step(r) ==
  \/ builderAction(r)
  \/ RequestJsonSettles(r)
  \/ FetchSettles(r)
  \/ BuilderJsonSettles(r)
  \/ SummaryOnFinish(r)
  \/ CreateSummarySettles(r)
  \/ StreamTextSettles(r)
  \/ SwitchSourceSettles(r)
  \/ GeneratorFinish(r)
  \/ OnFinishReturns(r)
  \/ GeneratorYield(r)
  \/ GeneratorError(r)
  \/ MergePart(r)
  \/ LoopPart(r)
  \/ LoopDone(r)
  \/ LoopCatch(r)
  \/ PumpChunk(r)
  \/ PumpDone(r)
  \/ PumpError(r)

\* Nothing more will happen for the request.
AtRest(r) == pc[r] # "idle" /\ ~ENABLED Step(r)

\* ------------------------------------------------------ reading the records
ProgressRecords(r) == SelectSeq(dataStream[r], LAMBDA e : e.type = "progress")

IsProgress(e, label, status) ==
  e.type = "progress" /\ e.label = label /\ e.status = status

Emitted(r, label, status) ==
  \E i \in 1..Len(dataStream[r]) : IsProgress(dataStream[r][i], label, status)

AnnotationCount(r, type) ==
  Cardinality({i \in 1..Len(dataStream[r]) : dataStream[r][i].type = type})

LabelCount(r, label) ==
  Cardinality({i \in 1..Len(dataStream[r]) :
                 dataStream[r][i].type = "progress" /\ dataStream[r][i].label = label})

\* The generator has called onFinish with a reason other than "length".
FinishedNormally(r) == generator[r].finishReason \notin {"none", "length"}

\* ------------------------------------------------------------------ claims
\* C1: the order values of the progress records of a request, in emission
\* order, start at 1 and are strictly increasing; no value is reused (the
\* code leaves no gap at all: the i-th progress record has order i).
C1_OrderStrictlyIncreasing ==
  \A r \in Requests :
    LET p == ProgressRecords(r)
    IN /\ Len(p) > 0 => p[1].order = 1
       /\ \A i \in 1..Len(p) - 1 :
            p[i + 1].order > p[i].order /\ p[i + 1].order = p[i].order + 1

C1_Witness ==
  /\ outcome["r1"].builder = "failed"
  /\ outcome["r1"].summary = "ok"
  /\ FinishedNormally("r1")
  /\ Len(ProgressRecords("r1")) = 6

\* C2: once the builder call has failed, when execute has ended the
\* generation stage has run (progress(response, in-progress) emitted, the
\* Text Generator invoked), and a finish other than "length" has emitted the
\* Usage Annotation and progress(response, complete).
C2_GenerationAfterBuilderFailure ==
  \A r \in Requests :
    (outcome[r].builder = "failed" /\ pc[r] \in {"executeDone", "executeRejected"})
      => /\ Emitted(r, "response", "in-progress")
         /\ calls[r].streamText = 1
         /\ FinishedNormally(r) =>
              (AnnotationCount(r, "usage") = 1 /\ Emitted(r, "response", "complete"))

\* C3: a failed Summary Generator call does not abort the pipeline: the
\* generation stage is entered (progress(response, in-progress) emitted and
\* the Text Generator invoked).
C3_SummaryFailureDoesNotAbort ==
  \A r \in Requests :
    outcome[r].summary = "failed"
      => /\ pc[r] # "executeRejected"
         /\ Emitted(r, "response", "in-progress")
         /\ calls[r].streamText = 1

\* C4: once the streaming response has been returned, the output channel
\* ends exactly once: when nothing more can happen for the request the
\* channel is closed or errored (unless the client cancelled it), and it is
\* never ended twice.
C4_ChannelEndsExactlyOnce ==
  \A r \in Requests :
    /\ readable[r].closes <= 1
    /\ (response[r].kind = "stream" /\ AtRest(r) /\ readable[r].state # "cancelled")
         => (readable[r].state \in {"closed", "errored"} /\ readable[r].closes = 1)

\* C5: every progress record and annotation emitted for a request is
\* delivered on the response body: when the body has ended, it has carried
\* as many records as were emitted.
C5_RecordsOnResponseBody ==
  \A r \in Requests :
    (response[r].kind = "stream" /\ readable[r].state = "closed")
      => Len(SelectSeq(readable[r].chunks, LAMBDA c : c.from = "dataStream"))
           = Len(SelectSeq(dataStream[r],
                           LAMBDA e : e.part \in {"data", "message_annotations"}))

\* C6: a failure before the stream is exposed (malformed body, malformed
\* cookies, messages not an array) ends in one JSON error response with an
\* error status, and no progress record is emitted.
C6_PreStreamFailureIsJsonError ==
  \A r \in Requests :
    (pc[r] \notin {"idle", "awaitRequestJson"}
       /\ (~request[r].bodyOk \/ ~request[r].cookiesOk \/ ~request[r].messagesOk))
      => /\ response[r] = [kind |-> "json-error", status |-> ErrorStatus]
         /\ dataStream[r] = <<>>

\* The sum of one counter over the usage reports received (a report without
\* usage, or without the counter, counts zero).
RECURSIVE SumOfReports(_, _)
SumOfReports(reports, f) ==
  IF reports = <<>> THEN 0
  ELSE LET rep == Head(reports).resp
       IN (IF rep.hasUsage /\ f \in DOMAIN rep.usage THEN rep.usage[f] ELSE 0)
            + SumOfReports(Tail(reports), f)

\* C7: the three totals of an emitted Usage Annotation equal the sums of the
\* corresponding counters over every usage report of the request (summary
\* onFinish and generator onFinish); a missing report or counter counts zero.
C7_UsageTotalsAreSums ==
  \A r \in Requests :
    \A i \in 1..Len(dataStream[r]) :
      dataStream[r][i].type = "usage"
        => \A f \in UsageFields :
             dataStream[r][i].value[f] = SumOfReports(usageReports[r], f)

C7_Witness ==
  /\ AnnotationCount("r1", "usage") = 1
  /\ Len(usageReports["r1"]) = 2
  /\ usageReports["r1"][1].resp.hasUsage
  /\ DOMAIN usageReports["r1"][1].resp.usage = UsageFields
  /\ usageReports["r1"][2].resp.hasUsage
  /\ DOMAIN usageReports["r1"][2].resp.usage = UsageFields \ {"totalTokens"}

\* C8: the Usage Annotation is emitted exactly once when the generator has
\* finished with a reason other than "length", and never more than once.
C8_UsageEmittedOnce ==
  \A r \in Requests :
    /\ AnnotationCount(r, "usage") <= 1
    /\ FinishedNormally(r) => AnnotationCount(r, "usage") = 1

C8_Witness ==
  /\ generator["r1"].finishReason = "content-filter"
  /\ AnnotationCount("r1", "usage") = 1
  /\ readable["r1"].state = "closed"

\* C9 (state part): the Usage Annotation comes after every other annotation
\* and is directly followed by progress(response, complete); a channel closed
\* after a normal finish has both behind it.
C9_OrderAtEveryState ==
  \A r \in Requests :
    LET ds == dataStream[r]
    IN /\ \A i, j \in 1..Len(ds) :
            (ds[i].type = "usage" /\ ds[j].part = "message_annotations" /\ i # j)
              => j < i
       /\ \A i \in 1..Len(ds) :
            ds[i].type = "usage"
              => (i + 1 <= Len(ds) /\ IsProgress(ds[i + 1], "response", "complete"))
       /\ (readable[r].state = "closed" /\ FinishedNormally(r))
            => (AnnotationCount(r, "usage") = 1 /\ Emitted(r, "response", "complete"))

\* The progress records and annotations of a request, as the handler wrote
\* them (the parts the generator writes and the error part of a failed
\* execute are not the handler's).
HandlerRecords(r) ==
  SelectSeq(dataStream[r], LAMBDA e : e.part \in {"data", "message_annotations"})

\* C9 (step part): the handler emits no record once the channel is closed.
C9_NoRecordAfterClose ==
  \A r \in Requests :
    readable[r].state = "closed" => HandlerRecords(r)' = HandlerRecords(r)

\* C9: on successful completion the Usage Annotation follows every
\* builder-result and context-summary annotation, progress(response,
\* complete) follows it, the channel is closed only after both, and no record
\* is emitted after the close.
C9_TerminalOrder == []C9_OrderAtEveryState /\ [][C9_NoRecordAfterClose]_vars

C9_Witness ==
  /\ readable["r1"].state = "closed"
  /\ generator["r1"].finishReason = "stop"
  /\ AnnotationCount("r1", "contextData") = 1
  /\ AnnotationCount("r1", "chatSummary") = 1
  /\ AnnotationCount("r1", "usage") = 1
  /\ Emitted("r1", "response", "complete")

\* C10: without a builder configuration (builderConfig absent, or backendUrl
\* unset or empty) the Backend Builder Service is not called, and neither a
\* progress record labelled "builder" nor a Builder Result Annotation is
\* emitted.
C10_NoBuilderWithoutConfig ==
  \A r \in Requests :
    request[r].builderConfig # "url"
      => /\ calls[r].builder = 0
         /\ LabelCount(r, "builder") = 0
         /\ AnnotationCount(r, "contextData") = 0

C10_Witness ==
  /\ request["r1"].builderConfig = "emptyUrl"
  /\ readable["r1"].state = "closed"
  /\ FinishedNormally("r1")
  /\ LabelCount("r1", "builder") = 0

\* execute has left the builder stage behind.
PastBuilderStage(r) ==
  pc[r] \in {"awaitCreateSummary", "awaitStreamText", "awaitSwitchSource",
             "executeDone", "executeRejected"}

\* C11: the summary stage runs exactly when the request has a file reference
\* and contextOptimization is true; otherwise the Summary Generator is not
\* called and neither a progress record labelled "summary" nor a
\* Context/Summary Annotation is emitted; the annotation is emitted at most
\* once.
C11_SummaryStageIffWanted ==
  \A r \in Requests :
    LET wanted == request[r].filePaths > 0 /\ request[r].contextOptimization
    IN /\ ~wanted => /\ calls[r].summary = 0
                     /\ LabelCount(r, "summary") = 0
                     /\ AnnotationCount(r, "chatSummary") = 0
       /\ (wanted /\ PastBuilderStage(r))
            => (calls[r].summary = 1 /\ Emitted(r, "summary", "in-progress"))
       /\ AnnotationCount(r, "chatSummary") <= 1

C11_Witness ==
  /\ request["r1"].filePaths > 0
  /\ request["r1"].contextOptimization
  /\ outcome["r1"].summary = "ok"
  /\ AnnotationCount("r1", "chatSummary") = 1
  /\ readable["r1"].state = "closed"

\* C13: when the client cancels the response body while the textStream is
\* its source, the generation is stopped: from then on the Text Generator
\* call is no longer streaming and the for-await loop is no longer running
\* (so nothing is pulled or enqueued after the cancellation).
C13_CancelStopsGenerator ==
  \A r \in Requests :
    readable[r].cancelAt = "textStream"
      => /\ generator[r].state # "streaming"
         /\ textStream[r].loop # "running"

\* C14: within one request the builder service (fetch), the summary service
\* (createSummary) and the Text Generator (streamText) are each called at
\* most once: no failure of any of them leads to a second call.
C14_CollaboratorsCalledAtMostOnce ==
  \A r \in Requests :
    /\ calls[r].builder <= 1
    /\ calls[r].summary <= 1
    /\ calls[r].streamText <= 1

\* A request that called all three, the builder having failed, and ended.
C14_Witness ==
  /\ calls["r1"].builder = 1
  /\ calls["r1"].summary = 1
  /\ calls["r1"].streamText = 1
  /\ outcome["r1"].builder = "failed"
  /\ readable["r1"].state = "closed"

\* C15: the messageSliceId handed to streamText is max(0, n - 3) for a
\* conversation of n messages (2 for n = 5, 0 for n = 2), whatever the
\* builder and summary stages did before.
C15_SliceIdIsWindowStart ==
  \A r \in Requests :
    calls[r].streamText >= 1 =>
      LET n == request[r].messageCount
          id == calls[r].sliceArg
      IN /\ id >= 0
         /\ id >= n - 3
         /\ (id = 0 \/ id = n - 3)
         /\ (n = 5 => id = 2)
         /\ (n = 2 => id = 0)

\* Five messages, both stages ran and the builder failed: streamText got 2.
C15_Witness ==
  /\ request["r1"].messageCount = 5
  /\ outcome["r1"].builder = "failed"
  /\ outcome["r1"].summary = "ok"
  /\ calls["r1"].streamText = 1
  /\ calls["r1"].sliceArg = 2

\* C16: a request does not wait for ever for the builder service or for
\* the summary service: each of the two waits ends, also when the service
\* never answers, and streamText is eventually called.
C16_NoIndefiniteWait ==
  \A r \in Requests :
    /\ (pc[r] \in {"awaitFetch", "awaitBuilderJson"})
          ~> (pc[r] \notin {"awaitFetch", "awaitBuilderJson"})
    /\ (pc[r] = "awaitCreateSummary") ~> (pc[r] # "awaitCreateSummary")
    /\ (pc[r] \in {"awaitFetch", "awaitBuilderJson", "awaitCreateSummary"})
          ~> (calls[r].streamText = 1)

\* The encoded non-empty texts of a sequence of parts, in their order (the
\* text of a part is its text, or its textDelta when it has no text).
RECURSIVE FragmentsOf(_)
FragmentsOf(parts) ==
  IF parts = <<>>
    THEN <<>>
    ELSE LET part == Head(parts)
             noString == {Absent, NotAString}
             value == CASE part.text \notin noString -> part.text
                        [] part.textDelta \notin noString -> part.textDelta
                        [] OTHER -> ""
         IN (IF value # "" THEN <<Encode(value)>> ELSE <<>>)
              \o FragmentsOf(Tail(parts))

\* C17: the chunks enqueued into the textStream are exactly the non-empty
\* text / textDelta values of the parts the loop has got, in their order, one
\* chunk for each (a part without text adds nothing), and the textStream is
\* closed only when the generator has delivered its last part. (After a
\* cancellation nothing more can be enqueued: the chunks are then the
\* beginning of that sequence.)
C17_FragmentsAreTheTexts ==
  \A r \in Requests :
    LET parts == generator[r].parts
        expected == FragmentsOf(SubSeq(parts, 1, textStream[r].pulled))
        got == textStream[r].enqueued
    IN /\ textStream[r].pulled <= Len(parts)
       /\ Len(got) <= Len(expected)
       /\ got = SubSeq(expected, 1, Len(got))
       /\ readable[r].state # "cancelled" => got = expected
       /\ textStream[r].state = "closed"
            => /\ generator[r].state = "finished"
               /\ textStream[r].pulled = Len(parts)
               /\ got = FragmentsOf(parts)

\* A part without text, then a textDelta: one chunk, and the stream closed.
C17_Witness ==
  /\ generator["r1"].parts =
       <<[type |-> "step-finish", text |-> Absent, textDelta |-> Absent],
         [type |-> "reasoning", text |-> NotAString, textDelta |-> "b"]>>
  /\ textStream["r1"].pulled = 2
  /\ textStream["r1"].enqueued = <<Encode("b")>>
  /\ textStream["r1"].state = "closed"

\* The state of a request whose result.fullStream has failed: the response
\* is the streaming one (no JSON error body) and neither the textStream nor
\* the response body is closed; once the loop has caught the failure the
\* textStream is errored (or was cancelled before) with nothing queued, and
\* once nothing more can happen the body has been errored (unless the
\* client cancelled it).
C18_ErroredNotClosed ==
  \A r \in Requests :
    generator[r].state = "errored" =>
      /\ response[r].kind = "stream" /\ response[r].status = OkStatus
      /\ textStream[r].state # "closed"
      /\ readable[r].state # "closed"
      /\ readable[r].closes = IF readable[r].state = "errored" THEN 1 ELSE 0
      /\ textStream[r].loop # "running"
           => /\ textStream[r].state \in {"errored", "cancelled"}
              /\ textStream[r].queue = <<>>
      /\ AtRest(r) => readable[r].state \in {"errored", "cancelled"}

\* A step taken after the failure enqueues no chunk, and once the loop has
\* caught the failure no chunk is forwarded.
C18_NothingAfterError ==
  \A r \in Requests :
    generator[r].state = "errored" =>
      /\ textStream'[r].enqueued = textStream[r].enqueued
      /\ textStream[r].loop # "running"
           => readable'[r].chunks = readable[r].chunks

\* C18: when result.fullStream fails after the response was returned, the
\* failure ends the response body as an error: the textStream is errored
\* and not closed, the body is errored and not closed, no chunk is forwarded
\* after the failure, and the response stays the streaming one (no JSON
\* error body).
C18_StreamErrorPropagates ==
  []C18_ErroredNotClosed /\ [][C18_NothingAfterError]_vars

\* A chunk was forwarded, then the stream failed and the body was errored.
C18_Witness ==
  /\ generator["r1"].state = "errored"
  /\ Len(generator["r1"].parts) = 2
  /\ Len(readable["r1"].chunks) = 1
  /\ Len(textStream["r1"].enqueued) = 2
  /\ readable["r1"].state = "errored"

\* The records of one stage in the order in-progress, annotation, complete:
\* the annotation is emitted once the stage is complete, after the stage's
\* first progress record and before its complete record.
StageOrder(r, label, annotation) ==
  LET ds == dataStream[r]
  IN /\ Emitted(r, label, "complete") => AnnotationCount(r, annotation) = 1
     /\ \A i, j \in 1..Len(ds) :
          /\ (ds[i].type = annotation /\ IsProgress(ds[j], label, "complete"))
                => i < j
          /\ (ds[j].type = annotation)
                => \E k \in 1..(j - 1) : IsProgress(ds[k], label, "in-progress")

\* Every record of the builder and summary stages comes before
\* progress(response, in-progress).
StagesBeforeResponse(r) ==
  LET ds == dataStream[r]
      ofStage(e) == \/ e.type \in {"contextData", "chatSummary"}
                    \/ e.type = "progress" /\ e.label \in {"builder", "summary"}
  IN \A i, j \in 1..Len(ds) :
       (ofStage(ds[i]) /\ IsProgress(ds[j], "response", "in-progress")) => i < j

\* C19: a stage that completes emits progress(in-progress), then its
\* annotation (contextData for the builder stage, chatSummary for the
\* summary stage), then progress(complete); all records of both stages
\* come before progress(response, in-progress).
C19_AnnotationBeforeComplete ==
  \A r \in Requests :
    /\ StageOrder(r, "builder", "contextData")
    /\ StageOrder(r, "summary", "chatSummary")
    /\ StagesBeforeResponse(r)

\* C20: when onFinish was called with finishReason "length", the handler
\* did something a client can observe: it wrote at least one record of its
\* own (a progress record or an annotation; the parts the generator writes
\* and the error part of a failed execute are not the handler's) after
\* progress(response, in-progress), or it called streamText again.
C20_LengthIsHandled ==
  \A r \in Requests :
    generator[r].finishReason = "length" =>
      \/ calls[r].streamText > 1
      \/ \E i, j \in 1..Len(dataStream[r]) :
           /\ IsProgress(dataStream[r][i], "response", "in-progress")
           /\ i < j
           /\ dataStream[r][j].part \in {"data", "message_annotations"}

\* C21: with two requests handled at the same time, each request counts its
\* own progress records (its i-th progress record has order i, and its
\* counter is one more than the number it has written, whatever the other
\* request has written) and adds up its own usage reports only (its totals,
\* and the totals of its usage annotation, are the sums over its own
\* reports).
C21_RequestsDoNotShareCounters ==
  \A r \in Requests :
    LET own == ProgressRecords(r)
    IN /\ \A i \in 1..Len(own) : own[i].order = i
       /\ progressCounter[r] = Len(own) + 1
       /\ \A f \in UsageFields :
            /\ cumulativeUsage[r][f] = SumOfReports(usageReports[r], f)
            /\ \A i \in 1..Len(dataStream[r]) :
                 dataStream[r][i].type = "usage"
                   => dataStream[r][i].value[f] = SumOfReports(usageReports[r], f)

\* Both requests have emitted their usage annotation, with different totals
\* and a different number of progress records.
C21_Witness ==
  /\ AnnotationCount("r1", "usage") = 1
  /\ AnnotationCount("r2", "usage") = 1
  /\ cumulativeUsage["r1"]["totalTokens"] > cumulativeUsage["r2"]["totalTokens"]
  /\ cumulativeUsage["r2"]["totalTokens"] > 0
  /\ Len(usageReports["r1"]) = 2
  /\ outcome["r1"].builder = "ok"
  /\ outcome["r2"].builder = "failed"

\* The progress records labelled "builder" of a request, as emitted.
BuilderRecords(r) ==
  SelectSeq(dataStream[r], LAMBDA e : e.type = "progress" /\ e.label = "builder")

BuilderErrorMessages ==
  {"Builder server error: Builder server returned status",
   "Builder server error: fetch failed",
   "Builder server error: invalid json"}

\* C22: a request with a builder URL emits one progress(builder,
\* in-progress) when the stage starts and, once the call has an outcome,
\* exactly one more builder record: progress(builder, complete) exactly when
\* the contextData annotation was emitted (2xx with a JSON body), otherwise
\* progress(builder, in-progress) carrying the error message, with no
\* contextData annotation. There is never a third one.
C22_TwoBuilderRecords ==
  \A r \in Requests :
    (request[r].builderConfig = "url" /\ response[r].kind = "stream") =>
      LET recs == BuilderRecords(r)
          annotated == AnnotationCount(r, "contextData") = 1
      IN /\ Len(recs) \in {1, 2}
         /\ recs[1].status = "in-progress"
         /\ recs[1].message \notin BuilderErrorMessages
         /\ AnnotationCount(r, "contextData") <= 1
         /\ Len(recs) = 2 <=> outcome[r].builder # "none"
         /\ Len(recs) = 1 => ~annotated
         /\ Len(recs) = 2 =>
              /\ recs[2].status = "complete" <=> annotated
              /\ annotated <=> outcome[r].builder = "ok"
              /\ recs[2].status # "complete"
                   => /\ recs[2].status = "in-progress"
                      /\ recs[2].message \in BuilderErrorMessages

\* The builder answered 2xx with a body that is not JSON: two in-progress
\* records, no annotation, and the request went on to its end.
C22_Witness ==
  /\ request["r1"].builderConfig = "url"
  /\ Len(BuilderRecords("r1")) = 2
  /\ BuilderRecords("r1")[2].status = "in-progress"
  /\ BuilderRecords("r1")[2].message = "Builder server error: invalid json"
  /\ AnnotationCount("r1", "contextData") = 0
  /\ readable["r1"].state = "closed"

\* What the prompt endpoint owes a request it has answered, given the key
\* the request counts as having supplied: success (with a sessionId) only
\* for a POST whose body parses and has a prompt and whose supplied key
\* equals the configured one, if one is configured; an error object with
\* 405, 400 or 401 and no sessionId otherwise, the first failing check in
\* the order method, body / prompt, key deciding the status.
PromptContract(supplied) ==
  prompt.pc = "done" =>
    LET in == prompt.input
        res == prompt.response
        methodOk == in.method = "POST"
        bodyOk == in.body = "object" /\ in.prompt = "text"
        keyOk == in.expectedApiKey \in {Absent, ""} \/ supplied = in.expectedApiKey
    IN /\ res.success
            => (methodOk /\ bodyOk /\ keyOk /\ res.status = OkStatus
                  /\ res.sessionId # "")
       /\ ~res.success
            => (res.status \in {405, 400, 401} /\ res.error # ""
                  /\ res.sessionId = "")
       /\ ~(methodOk /\ bodyOk /\ keyOk)
            => /\ ~res.success
               /\ res.status = IF ~methodOk THEN 405
                                ELSE IF ~bodyOk THEN 400
                                ELSE 401

\* C23 as stated: the supplied key is the x-api-key header if the header is
\* present, otherwise the body's apiKey.
C23_PromptChecksHeaderIfPresent ==
  PromptContract(IF prompt.input.header # Absent
                   THEN prompt.input.header
                   ELSE prompt.input.apiKey)

\* C23, amended: the supplied key is the x-api-key header if the header is
\* present and not empty, otherwise the body's apiKey.
C23_PromptChecksNonEmptyHeader ==
  PromptContract(IF prompt.input.header \notin {Absent, ""}
                   THEN prompt.input.header
                   ELSE prompt.input.apiKey)

\* An empty x-api-key header and the right key in the body: accepted.
C23_Witness ==
  /\ prompt.pc = "done"
  /\ prompt.input.header = ""
  /\ prompt.input.apiKey = "k1"
  /\ prompt.input.expectedApiKey = "k1"
  /\ prompt.response.success
  /\ prompt.response.sessionId # ""

====
